---- MODULE Spec2Model ----
(***************************************************************************)
(* Model of the schema-registry-operator reconcilers.                      *)
(*                                                                         *)
(* The repository holds several revisions of the reconcilers.  They are    *)
(* modelled over one resource store and one registry:                      *)
(*                                                                         *)
(*   Spec         internal/controller/schema_controller.go (uniqueness     *)
(*                check, finalizer, deletion path, upsert).                *)
(*   SpecVersion  internal/controller/schemaversion_controller.go          *)
(*                (registry clean-up on a SchemaVersion deletion event).   *)
(*   SpecChain    the revision that detects content changes by hash and    *)
(*                chains SchemaVersion children (unnamed/part_005:71-310)  *)
(*                together with the activating SchemaVersion reconciler    *)
(*                (unnamed/part_007).                                      *)
(*   SpecDelete   deleteSchemaVersion of schemaversion_controller.go       *)
(*                applied on its own to any registry history.              *)
(*   SpecLive     Spec with every Schema's reconcile request served        *)
(*                again and again (the requeue of the work queue).         *)
(*   SpecHash     SpecChain over a Schema whose content is one of two      *)
(*                texts with the same FNV-1a hash.                         *)
(*   SpecCompat   Spec over one Schema whose compatibility level is edited. *)
(*   SpecActivate the SchemaVersion reconciler of unnamed/part_007 over     *)
(*                SchemaVersion objects applied by hand, with and without   *)
(*                the previous-active annotation.                           *)
(*   SpecResponses Spec over one Schema, with 409 and 422 answers of the    *)
(*                registry that may lack the message field.                 *)
(*   SpecFingerprint hash.Hash applied to every payload of up to MaxLen     *)
(*                bytes.                                                    *)
(***************************************************************************)
EXTENDS Integers, Sequences, FiniteSets, TLC

VARIABLES
    schemas,     \* store: Schema objects by name
    versions,    \* store: SchemaVersion objects (a set of records, keyed by name)
    tombs,       \* SchemaVersion objects that were removed from the store
    instances,   \* store: names of the SchemaRegistry objects that exist
    registry,    \* the external registry: a set of (subject, version) entries
    svQueue,     \* SchemaVersion reconcile requests waiting in the work queue
    pass,        \* per Schema: the reconcile pass in flight (one per object)
    last,        \* the outcome and the call log of the pass that ended last
    edits        \* the number of user operations so far

vars == <<schemas, versions, tombs, instances, registry, svQueue, pass, last, edits>>

----------------------------------------------------------------------------
(* Bounds and input sets *)

MaxVersions == 2
MaxEdits == 4

\* Schema "a" is applied in every shape, without a subject or with a subject
\* that differs from its name; Schema "b" is the contender for the defaulted
\* subject of "a": labelled, with that subject spelled out
SchemaNames == {"a", "b"}
SpecSubjects(n) == IF n = "a" THEN {"", "x"} ELSE {"a"}
Targets == {"VALUE"}
Contents(n) == IF n = "a" THEN {<<1>>, <<2>>} ELSE {<<1>>}
\* Two JSON Schema documents, {"title":"ftftkt"} and {"title":"gmxrwn"}, as
\* bytes: FNV-1a gives both the 32-bit value 54450734
CollidingContents ==
    {<<123, 34, 116, 105, 116, 108, 101, 34, 58, 34,
       102, 116, 102, 116, 107, 116, 34, 125>>,
     <<123, 34, 116, 105, 116, 108, 101, 34, 58, 34,
       103, 109, 120, 114, 119, 110, 34, 125>>}

\* Two of the values spec.compatibilityLevel takes; "NONE" is the default
CompatibilityLevels == {"NONE", "BACKWARD"}

InstanceNames == {"sr"}
Labels(n) == IF n = "a" THEN {"", "sr"} ELSE {"sr"}
Messages == {"m1"}

\* The value of a pointer field that a response of the registry does not carry
Nil == "<nil>"

\* The message field of a 409 or 422 answer: a text, or missing
ResponseMessages == Messages \cup {Nil}

----------------------------------------------------------------------------
(* Program constants *)

SchemaDeployedSuccess == "Schema deployed successfully"
SchemaVersionLatest == "latest"
SchemaRegistryLabelName == "client.sroperator.io/instance"

ErrInstanceLabelNotFound == "instance label not found"
ErrInstanceNotFound == "schema registry instance not found"
ErrIncompatibleSchema == "incompatible schema"
ErrInvalidSchemaOrType == "invalid schema or schema type"
ErrInvalidSchemaVersionModification ==
    "no previous active schema version found, SchemaVersion has been modified manually"

StatusOK == 200
StatusNotFound == 404
StatusConflict == 409
StatusUnprocessableEntity == 422
StatusInternalServerError == 500
SchemaVersionWasSoftDeleted == 40406
Minute == 60

\* hash/fnv New32a: offset basis 2166136261 = 0x811C9DC5 and prime
\* 16777619 = 0x01000193, held as 16-bit halves (the model checker's integers
\* are 32-bit signed)
FnvOffsetHi == 33052
FnvOffsetLo == 40389
FnvPrimeHi == 256
FnvPrimeLo == 403
TwoTo16 == 65536

----------------------------------------------------------------------------
(* Strings and hashing *)

Digit == <<"0", "1", "2", "3", "4", "5", "6", "7", "8", "9">>

RECURSIVE Itoa(_)
Itoa(n) == IF n < 10 THEN Digit[n + 1] ELSE Itoa(n \div 10) \o Digit[(n % 10) + 1]

ToLower(t) ==
    CASE t = "VALUE" -> "value"
      [] t = "KEY" -> "key"
      [] OTHER -> t

RECURSIVE Xor(_, _)
Xor(x, y) ==
    IF x = 0 THEN y
    ELSE IF y = 0 THEN x
    ELSE ((x + y) % 2) + 2 * Xor(x \div 2, y \div 2)

\* A uint32 is a pair <<hi, lo>> of 16-bit halves
\* h * 16777619 mod 2^32
MulPrime(h) ==
    LET low == h[2] * FnvPrimeLo
    IN  <<(h[1] * FnvPrimeLo + h[2] * FnvPrimeHi + (low \div TwoTo16)) % TwoTo16,
          low % TwoTo16>>

\* fnv.New32a().Write: for each byte, xor into the low byte, then multiply
RECURSIVE Fnv1a(_, _)
Fnv1a(h, bytes) ==
    IF bytes = <<>> THEN h
    ELSE Fnv1a(MulPrime(<<h[1], Xor(h[2], Head(bytes))>>), Tail(bytes))

\* A variant of Hash that adds the bytes up instead of folding them in order
RECURSIVE SumBytes(_)
SumBytes(bytes) == IF bytes = <<>> THEN 0 ELSE Head(bytes) + SumBytes(Tail(bytes))

HashUnordered(content) ==
    MulPrime(<<FnvOffsetHi, Xor(FnvOffsetLo, SumBytes(content) % TwoTo16)>>)

\* hash.Hash
Hash(content) == Fnv1a(<<FnvOffsetHi, FnvOffsetLo>>, content)

\* strconv.Itoa(int(h)) of a uint32 held as halves
RECURSIVE Itoa32(_)
Itoa32(h) ==
    IF h[1] = 0 THEN Itoa(h[2])
    ELSE LET mid == (h[1] % 10) * TwoTo16 + h[2]
         IN  Itoa32(<<h[1] \div 10, mid \div 10>>) \o Digit[(mid % 10) + 1]

----------------------------------------------------------------------------
(* Resource store objects *)

NoSchema ==
    [exists |-> FALSE, label |-> "", subject |-> "", target |-> "VALUE",
     content |-> <<>>, finalizer |-> FALSE, deleting |-> FALSE, hashLabel |-> "",
     compatibilityLevel |-> "NONE",
     ready |-> FALSE, message |-> "", registryError |-> "", latestVersion |-> 0]

NewSchema(label, subject, target, content) ==
    [NoSchema EXCEPT !.exists = TRUE, !.label = label, !.subject = subject,
                     !.target = target, !.content = content]

\* A variant of GetSubject that starts from nothing but spec.subject
GetSubjectBare(s) == s.subject

\* Schema.GetSubject: the effective subject
GetSubject(s) == s.subject \o "-" \o ToLower(s.target)

\* Schema.UpdateStatus (LastTransitionTime is not modelled)
UpdateStatus(s, ready, message) == [s EXCEPT !.ready = ready, !.message = message]

\* A variant of StoreUpdate that writes the metadata only and keeps the stored
\* spec
StoreUpdateMetadata(stored, obj) ==
    [stored EXCEPT !.finalizer = obj.finalizer, !.hashLabel = obj.hashLabel]

\* A variant of StoreUpdate for a resource without a status subresource: the
\* whole object is written
StoreUpdateWithStatus(stored, obj) == obj

\* client.Update on a resource with a status subresource: metadata and spec are
\* written, the stored status is kept
StoreUpdate(stored, obj) ==
    [obj EXCEPT !.ready = stored.ready, !.message = stored.message,
                !.registryError = stored.registryError,
                !.latestVersion = stored.latestVersion]

\* client.Status().Update: only the status is written
StoreStatusUpdate(stored, obj) ==
    [stored EXCEPT !.ready = obj.ready, !.message = obj.message,
                   !.registryError = obj.registryError,
                   !.latestVersion = obj.latestVersion]

\* The API server removes an object that carries a deletion timestamp as soon as
\* its last finalizer is gone
Settle(s) == IF s.exists /\ s.deleting /\ ~s.finalizer THEN NoSchema ELSE s

\* A variant of WriteAccepted for a store that takes every write
WriteAcceptedAlways(stored, obj, stale) == TRUE

\* Whether the API server accepts a write of obj over stored: the object exists,
\* the writer read its current resourceVersion, and no finalizer is added to an
\* object that is being deleted
WriteAccepted(stored, obj, stale) ==
    /\ stored.exists
    /\ ~stale
    /\ ~(stored.deleting /\ obj.finalizer /\ ~stored.finalizer)

----------------------------------------------------------------------------
(* The registry behind the generated REST client.  A call is answered from   *)
(* the registry's state unless the environment makes it fail: "neterr" is a  *)
(* transport error (the Go error is non-nil), "s500" an HTTP 500 response.   *)

Entries(reg, subject) == {e \in reg : e.subject = subject}
Live(reg, subject) == {e \in Entries(reg, subject) : e.state = "live"}
Soft(reg, subject) == {e \in Entries(reg, subject) : e.state = "soft"}

MaxOf(S) == IF S = {} THEN 0 ELSE CHOOSE x \in S : \A y \in S : y <= x

LatestLive(reg, subject) == MaxOf({e.version : e \in Live(reg, subject)})

Registered(reg, subject, content) ==
    \E e \in Live(reg, subject) : e.content = content

LogEntry(op, subject, version, permanent, code, msg) ==
    [op |-> op, subject |-> subject, version |-> version, permanent |-> permanent,
     code |-> code, msg |-> msg]

\* The answers the environment may give to a register call; a new version is
\* only assigned while the subject holds fewer than MaxVersions entries
RegisterAnswers(reg, subject, content) ==
    {"neterr", "s409", "s422", "s500"}
        \cup (IF Registered(reg, subject, content)
                 \/ Cardinality(Entries(reg, subject)) < MaxVersions
              THEN {"ok"} ELSE {})

CallAnswers == {"ok", "neterr", "s500"}

AnswerCode(env, okCode) ==
    CASE env = "ok" -> okCode
      [] env = "neterr" -> 0
      [] env = "s409" -> StatusConflict
      [] env = "s422" -> StatusUnprocessableEntity
      [] OTHER -> StatusInternalServerError

\* POST /subjects/{subject}/versions
RegRegister(reg, subject, content, env) ==
    IF env = "ok" /\ ~Registered(reg, subject, content)
    THEN reg \cup {[subject |-> subject,
                    version |-> MaxOf({e.version : e \in Entries(reg, subject)}) + 1,
                    content |-> content, state |-> "live"]}
    ELSE reg

\* GET /subjects/{subject}/versions/latest
LatestCode(reg, subject, env) ==
    AnswerCode(env, IF Live(reg, subject) = {} THEN StatusNotFound ELSE StatusOK)

\* DELETE /subjects/{subject}[?permanent=true]
DeleteSubjectCode(reg, subject, permanent, env) ==
    AnswerCode(env,
        IF permanent
        THEN IF Soft(reg, subject) # {} /\ Live(reg, subject) = {}
             THEN StatusOK ELSE StatusNotFound
        ELSE IF Live(reg, subject) # {} THEN StatusOK ELSE StatusNotFound)

RegDeleteSubject(reg, subject, permanent, env) ==
    IF DeleteSubjectCode(reg, subject, permanent, env) # StatusOK THEN reg
    ELSE {IF e.subject # subject THEN e
          ELSE IF permanent /\ e.state = "soft" THEN [e EXCEPT !.state = "gone"]
          ELSE IF ~permanent /\ e.state = "live" THEN [e EXCEPT !.state = "soft"]
          ELSE e : e \in reg}

\* DELETE /subjects/{subject}/versions/{version}[?permanent=true]
DeleteVersionCode(reg, subject, version, permanent, env) ==
    AnswerCode(env,
        IF \E e \in Entries(reg, subject) :
               /\ e.version = version
               /\ e.state = (IF permanent THEN "soft" ELSE "live")
        THEN StatusOK ELSE StatusNotFound)

RegDeleteVersion(reg, subject, version, permanent, env) ==
    IF DeleteVersionCode(reg, subject, version, permanent, env) # StatusOK THEN reg
    ELSE {IF e.subject = subject /\ e.version = version
          THEN [e EXCEPT !.state = IF permanent THEN "gone" ELSE "soft"]
          ELSE e : e \in reg}

----------------------------------------------------------------------------
(* Errors.  An error is its sentinel (what errors.Is and errors.Unwrap see)  *)
(* and its text.                                                             *)

NoError == [sentinel |-> "", text |-> ""]
PlainError(text) == [sentinel |-> "", text |-> text]

\* fmt.Errorf("%w: %s", ErrIncompatibleSchema, message)
NewIncompatibleSchemaError(message) ==
    [sentinel |-> ErrIncompatibleSchema,
     text |-> ErrIncompatibleSchema \o ": " \o message]

\* fmt.Errorf("%w: %s", ErrInvalidSchemaOrType, message)
NewInvalidSchemaOrTypeError(message) ==
    [sentinel |-> ErrInvalidSchemaOrType,
     text |-> ErrInvalidSchemaOrType \o ": " \o message]

\* The run-time panic of dereferencing a nil pointer
NilDereference ==
    PlainError("runtime error: invalid memory address or nil pointer dereference")

\* errors.Unwrap(err).Error(): the text of the wrapped sentinel
UnwrapError(err) == err.sentinel

----------------------------------------------------------------------------
(* Helpers shared by the reconcilers *)

\* A variant of FetchSchemaRegistryInstance that does not ask for a retry
\* when the instance is not found
FetchSchemaRegistryInstanceNoRetry(label, insts) ==
    IF label = ""
    THEN [sr |-> "", retry |-> TRUE, err |-> ErrInstanceLabelNotFound,
          message |-> "Instance label: " \o SchemaRegistryLabelName \o " not found"]
    ELSE IF label \notin insts
    THEN [sr |-> "", retry |-> FALSE, err |-> ErrInstanceNotFound,
          message |-> "Schema Registry instance not found"]
    ELSE [sr |-> label, retry |-> FALSE, err |-> "", message |-> ""]

\* FetchSchemaRegistryInstance (internal/controller/utils.go)
FetchSchemaRegistryInstance(label, insts) ==
    IF label = ""
    THEN [sr |-> "", retry |-> TRUE, err |-> ErrInstanceLabelNotFound,
          message |-> "Instance label: " \o SchemaRegistryLabelName \o " not found"]
    ELSE IF label \notin insts
    THEN [sr |-> "", retry |-> TRUE, err |-> ErrInstanceNotFound,
          message |-> "Schema Registry instance not found"]
    ELSE [sr |-> label, retry |-> FALSE, err |-> "", message |-> ""]

\* A variant of isSubjectUnique whose scan finds no collision
isSubjectUniqueAlways(store, obj, srName) == TRUE

\* SchemaReconciler.isSubjectUnique: the List returns every Schema of the
\* namespace that carries the instance label
isSubjectUnique(store, obj, srName) ==
    \A m \in SchemaNames :
        (store[m].exists /\ store[m].label = srName)
            => GetSubject(store[m]) # GetSubject(obj)

\* SchemaReconciler.deploySchema: register, map 422 and 409, fetch the latest
deploySchema(reg, obj, rEnv, rMsg, gEnv) ==
    LET subject == GetSubject(obj)
        rCode == AnswerCode(rEnv, StatusOK)
        reg1 == RegRegister(reg, subject, obj.content, rEnv)
        rLog == <<LogEntry("Register", subject, 0, FALSE, rCode,
                           IF rCode \in {StatusConflict, StatusUnprocessableEntity}
                           THEN rMsg ELSE "")>>
        gCode == LatestCode(reg1, subject, gEnv)
        gLog == <<LogEntry("GetLatest", subject, LatestLive(reg1, subject), FALSE,
                           gCode, "")>>
    IN  IF rCode = 0
        THEN [reg |-> reg1, log |-> rLog, err |-> PlainError("transport"), version |-> 0]
        \* *registerResp.ApplicationvndSchemaregistryV1JSON422.Message and
        \* *registerResp.ApplicationvndSchemaregistryV1JSON409.Message
        ELSE IF rCode \in {StatusUnprocessableEntity, StatusConflict} /\ rMsg = Nil
        THEN [reg |-> reg1, log |-> rLog, err |-> NilDereference, version |-> 0]
        ELSE IF rCode = StatusUnprocessableEntity
        THEN [reg |-> reg1, log |-> rLog, err |-> NewInvalidSchemaOrTypeError(rMsg),
              version |-> 0]
        ELSE IF rCode = StatusConflict
        THEN [reg |-> reg1, log |-> rLog, err |-> NewIncompatibleSchemaError(rMsg),
              version |-> 0]
        ELSE IF gCode # StatusOK
        THEN [reg |-> reg1, log |-> rLog \o gLog,
              err |-> PlainError("unknown error, failed to get schema"), version |-> 0]
        ELSE [reg |-> reg1, log |-> rLog \o gLog, err |-> NoError,
              version |-> LatestLive(reg1, subject)]

\* A call to the resource store, as the call log records it
StoreLog(op, name, ok) ==
    LogEntry(op, name, 0, FALSE, IF ok THEN StatusOK ELSE StatusConflict, "")

\* r.Get of a SchemaVersion: found, or NotFound
GetLog(name, found) ==
    LogEntry("Get", name, 0, FALSE, IF found THEN StatusOK ELSE StatusNotFound, "")

----------------------------------------------------------------------------
(* The Schema reconciler of internal/controller/schema_controller.go.        *)
(* A pass is two steps: Reconcile runs the handler up to the answer of the   *)
(* uniqueness List, ReconcileApply runs the writes that follow it, so that   *)
(* passes of different Schemas interleave between the check and the commit.  *)

SyncInterval == 300

IdlePass == [pc |-> "idle", obj |-> NoSchema, sr |-> "", stale |-> FALSE, log |-> <<>>]

NoPass == [kind |-> "none", name |-> "", result |-> "none", after |-> 0,
           err |-> "", log |-> <<>>]

Outcome(kind, name, result, after, err, log) ==
    [kind |-> kind, name |-> name, result |-> result, after |-> after,
     err |-> err, log |-> log]

\* A variant of delete that takes every answer but 200 to the soft removal
\* for a failure
deleteStrict(reg, obj, d1, d2) ==
    LET subject == GetSubject(obj)
        c1 == DeleteSubjectCode(reg, subject, FALSE, d1)
        reg1 == RegDeleteSubject(reg, subject, FALSE, d1)
        c2 == DeleteSubjectCode(reg1, subject, TRUE, d2)
        reg2 == RegDeleteSubject(reg1, subject, TRUE, d2)
    IN  IF c1 # StatusOK
        THEN [reg |-> reg1, err |-> "failed to delete schema",
              log |-> <<LogEntry("DeleteSubject", subject, 0, FALSE, c1, "")>>]
        ELSE [reg |-> reg2, err |-> "",
              log |-> <<LogEntry("DeleteSubject", subject, 0, FALSE, c1, ""),
                        LogEntry("DeleteSubject", subject, 0, TRUE, c2, "")>>]

\* SchemaReconciler.delete: soft removal, then permanent removal whose failure
\* is only logged; the responses are not inspected
delete(reg, obj, d1, d2) ==
    LET subject == GetSubject(obj)
        c1 == DeleteSubjectCode(reg, subject, FALSE, d1)
        reg1 == RegDeleteSubject(reg, subject, FALSE, d1)
        c2 == DeleteSubjectCode(reg1, subject, TRUE, d2)
        reg2 == RegDeleteSubject(reg1, subject, TRUE, d2)
    IN  IF c1 = 0
        THEN [reg |-> reg1, err |-> "failed to delete schema",
              log |-> <<LogEntry("DeleteSubject", subject, 0, FALSE, c1, "")>>]
        ELSE [reg |-> reg2, err |-> "",
              log |-> <<LogEntry("DeleteSubject", subject, 0, FALSE, c1, ""),
                        LogEntry("DeleteSubject", subject, 0, TRUE, c2, "")>>]

\* SchemaReconciler.upsert
upsert(n, stored, obj, sr, reg, stale, rEnv, rMsg, gEnv) ==
    LET d == deploySchema(reg, obj, rEnv, rMsg, gEnv)
        failed == UpdateStatus(
            IF d.err.sentinel \in {ErrIncompatibleSchema, ErrInvalidSchemaOrType}
            THEN [obj EXCEPT !.registryError = UnwrapError(d.err)] ELSE obj,
            FALSE, "Failed to deploy schema to Schema Registry: " \o sr)
        done == [UpdateStatus(obj, TRUE, SchemaDeployedSuccess)
                    EXCEPT !.latestVersion = d.version]
        new == IF d.err # NoError THEN failed ELSE done
        ok == WriteAccepted(stored, new, stale)
        log == d.log \o <<StoreLog("StatusUpdate", n, ok)>>
    IN  IF d.err = NilDereference
        \* the panic unwinds deploySchema, upsert and Reconcile
        THEN [stored |-> stored, reg |-> d.reg, log |-> d.log, result |-> "panic",
              after |-> 0, err |-> NilDereference.text]
        ELSE IF ~ok
        THEN [stored |-> stored, reg |-> d.reg, log |-> log, result |-> "error",
              after |-> 0, err |-> "failed to update schema status"]
        ELSE IF d.err # NoError
        \* err was reassigned by the status update: the pass returns
        \* (RequeueAfter: time.Minute, nil)
        THEN [stored |-> StoreStatusUpdate(stored, new), reg |-> d.reg, log |-> log,
              result |-> "requeue", after |-> Minute, err |-> ""]
        ELSE [stored |-> StoreStatusUpdate(stored, new), reg |-> d.reg, log |-> log,
              result |-> "requeue", after |-> SyncInterval, err |-> ""]

\* Reconcile, lines 70-147: Get, instance lookup, deletion path, subject
\* default, uniqueness check
ReconcileCheck(n, store, reg, insts, d1, d2) ==
    LET s == store[n]
        inst == FetchSchemaRegistryInstance(s.label, insts)
        noInst == UpdateStatus(s, FALSE, inst.message)
        noInstOk == WriteAccepted(s, noInst, FALSE)
        del == IF s.deleting THEN delete(reg, s, d1, d2)
               ELSE [reg |-> reg, err |-> "", log |-> <<>>]
        unfin == [s EXCEPT !.finalizer = FALSE]
        delOk == WriteAccepted(s, unfin, FALSE)
        stored1 == IF s.deleting THEN Settle(StoreUpdate(s, unfin)) ELSE s
        obj1 == IF s.deleting THEN StoreUpdate(s, unfin) ELSE s
        log1 == IF s.deleting THEN del.log \o <<StoreLog("Update", n, delOk)>> ELSE <<>>
        obj2 == IF obj1.subject = "" THEN [obj1 EXCEPT !.subject = n] ELSE obj1
        store1 == [store EXCEPT ![n] = stored1]
        unique == isSubjectUnique(store1, obj2, inst.sr)
        obj3 == UpdateStatus(obj2, FALSE,
                    "Subject " \o GetSubject(obj2) \o
                    " is not unique in Schema Registry " \o inst.sr)
        dupOk == WriteAccepted(stored1, obj3, FALSE)
        stop(stored, r, log, result, after, err) ==
            [stored |-> stored, reg |-> r, log |-> log, result |-> result,
             after |-> after, err |-> err, cont |-> FALSE, obj |-> NoSchema,
             sr |-> ""]
    IN  IF ~s.exists THEN stop(s, reg, <<>>, "done", 0, "")
        ELSE IF inst.err # ""
        THEN IF ~noInstOk
             THEN stop(s, reg, <<StoreLog("StatusUpdate", n, FALSE)>>, "error", 0,
                       "failed to update schema status")
             ELSE stop(StoreStatusUpdate(s, noInst), reg,
                       <<StoreLog("StatusUpdate", n, TRUE)>>,
                       IF inst.retry THEN "requeue" ELSE "error",
                       IF inst.retry THEN Minute ELSE 0,
                       IF inst.retry THEN "" ELSE inst.err)
        ELSE IF s.deleting /\ del.err # ""
        THEN stop(s, del.reg, del.log, "error", Minute, del.err)
        ELSE IF s.deleting /\ ~delOk
        THEN stop(s, del.reg, log1, "error", Minute,
                  "failed to remove finalizer from schema")
        ELSE IF ~unique
        THEN IF ~dupOk
             THEN stop(stored1, del.reg, log1 \o <<StoreLog("Update", n, FALSE)>>,
                       "error", 0, "failed to update schema")
             ELSE stop(Settle(StoreUpdate(stored1, obj3)), del.reg,
                       log1 \o <<StoreLog("Update", n, TRUE)>>, "done", 0, "")
        ELSE [stored |-> stored1, reg |-> del.reg, log |-> log1, result |-> "none",
              after |-> 0, err |-> "", cont |-> TRUE, obj |-> obj2, sr |-> inst.sr]

\* A variant of ReconcileCommit that goes to upsert without the finalizer
ReconcileCommitUnguarded(n, p, stored, reg, rEnv, rMsg, gEnv) ==
    LET u == upsert(n, stored, p.obj, p.sr, reg, p.stale, rEnv, rMsg, gEnv)
    IN  [u EXCEPT !.log = p.log \o u.log]

\* Reconcile, lines 149-161: add the finalizer, then upsert
ReconcileCommit(n, p, stored, reg, rEnv, rMsg, gEnv) ==
    LET withFin == [p.obj EXCEPT !.finalizer = TRUE]
        finOk == WriteAccepted(stored, withFin, p.stale)
        stored1 == IF p.obj.finalizer THEN stored ELSE StoreUpdate(stored, withFin)
        obj1 == IF p.obj.finalizer THEN p.obj ELSE stored1
        log1 == IF p.obj.finalizer THEN p.log
                ELSE p.log \o <<StoreLog("Update", n, finOk)>>
        u == upsert(n, stored1, obj1, p.sr, reg, p.stale, rEnv, rMsg, gEnv)
    IN  IF ~p.obj.finalizer /\ ~finOk
        THEN [stored |-> stored, reg |-> reg, log |-> log1, result |-> "error",
              after |-> 0, err |-> "failed to update schema"]
        ELSE [u EXCEPT !.log = log1 \o u.log]

Reconcile(n) ==
    /\ pass[n].pc = "idle"
    /\ \E d1, d2 \in (IF schemas[n].deleting THEN CallAnswers ELSE {"ok"}) :
        LET r == ReconcileCheck(n, schemas, registry, instances, d1, d2)
        IN  /\ schemas' = [schemas EXCEPT ![n] = r.stored]
            /\ registry' = r.reg
            /\ IF r.cont
               THEN /\ pass' = [pass EXCEPT ![n] =
                            [pc |-> "apply", obj |-> r.obj, sr |-> r.sr,
                             stale |-> FALSE, log |-> r.log]]
                    /\ last' = last
               ELSE /\ pass' = pass
                    /\ last' = Outcome("schema", n, r.result, r.after, r.err, r.log)
    /\ UNCHANGED <<versions, tombs, instances, svQueue, edits>>

\* The second step of a pass, with the message of a 409 or 422 answer drawn
\* from msgs
ReconcileApplyFrom(n, msgs) ==
    /\ pass[n].pc = "apply"
    /\ \E rEnv \in RegisterAnswers(registry, GetSubject(pass[n].obj), pass[n].obj.content),
          rMsg \in msgs :
       \E gEnv \in (IF rEnv \in {"ok", "s500"} THEN CallAnswers ELSE {"ok"}) :
        LET r == ReconcileCommit(n, pass[n], schemas[n], registry, rEnv, rMsg, gEnv)
        IN  /\ schemas' = [schemas EXCEPT ![n] = r.stored]
            /\ registry' = r.reg
            /\ last' = Outcome("schema", n, r.result, r.after, r.err, r.log)
    /\ pass' = [pass EXCEPT ![n] = IdlePass]
    /\ UNCHANGED <<versions, tombs, instances, svQueue, edits>>

ReconcileApply(n) == ReconcileApplyFrom(n, Messages)

----------------------------------------------------------------------------
(* SchemaVersion objects and the SchemaVersion reconciler of                 *)
(* internal/controller/schemaversion_controller.go                           *)

\* The zero value of clientv1alpha1.SchemaVersion
EmptyVersion ==
    [name |-> "", subject |-> "", version |-> 0, content |-> <<>>, prev |-> "",
     label |-> "", owner |-> "", active |-> FALSE, ready |-> FALSE]

VersionName(subject, version) == subject \o "-v" \o Itoa(version)

Named(vers, name) == {v \in vers : v.name = name}

\* r.Get(ctx, req.NamespacedName, schemaVersion): on NotFound the object stays
\* the zero value it was allocated as
GetVersion(vers, tmbs, name) ==
    IF Named(vers, name) # {}
    THEN [found |-> TRUE, obj |-> CHOOSE v \in Named(vers, name) : TRUE]
    ELSE [found |-> FALSE, obj |-> EmptyVersion]

\* apierrors.IsNotFound(err) || apierrors.IsInvalid(err) on the error of a
\* registry client call: such an error is a transport error, never an API status
IsNotFoundOrInvalid(err) == err \in {"NotFound", "Invalid"}

ClientError(code) == IF code = 0 THEN "transport" ELSE ""

\* SchemaVersionReconciler.deleteSchemaVersion
deleteSchemaVersion(reg, obj, e1, e2) ==
    LET c1 == DeleteVersionCode(reg, obj.subject, obj.version, FALSE, e1)
        reg1 == RegDeleteVersion(reg, obj.subject, obj.version, FALSE, e1)
        c2 == DeleteVersionCode(reg1, obj.subject, obj.version, TRUE, e2)
        reg2 == RegDeleteVersion(reg1, obj.subject, obj.version, TRUE, e2)
        l1 == LogEntry("DeleteVersion", obj.subject, obj.version, FALSE, c1, "")
        l2 == LogEntry("DeleteVersion", obj.subject, obj.version, TRUE, c2, "")
    IN  IF IsNotFoundOrInvalid(ClientError(c1)) /\ c1 # SchemaVersionWasSoftDeleted
        THEN [reg |-> reg1, log |-> <<l1>>, err |-> ""]
        ELSE IF IsNotFoundOrInvalid(ClientError(c2))
        THEN [reg |-> reg2, log |-> <<l1, l2>>, err |-> ""]
        ELSE [reg |-> reg2, log |-> <<l1, l2>>, err |-> ClientError(c2)]

\* SchemaVersionReconciler.Reconcile.  Both status updates of the NotFound
\* branch fail: the first is handed a nil *SchemaRegistry, the second an
\* object that is not in the store.
SchemaVersionPass(name, vers, tmbs, reg, insts, e1, e2) ==
    LET g == GetVersion(vers, tmbs, name)
        inst == FetchSchemaRegistryInstance(g.obj.label, insts)
        d == deleteSchemaVersion(reg, g.obj, e1, e2)
        get == <<GetLog(name, g.found)>>
    IN  IF g.found
        THEN [reg |-> reg, o |-> Outcome("version", name, "done", 0, "", get)]
        ELSE IF inst.err # ""
        THEN [reg |-> reg,
              o |-> Outcome("version", name, "error", 0, "expected pointer, but got nil",
                            get \o <<StoreLog("StatusUpdate", "", FALSE)>>)]
        ELSE IF d.err # ""
        THEN [reg |-> d.reg,
              o |-> Outcome("version", name, "error", 0,
                            "failed to update schema version status",
                            get \o d.log \o <<StoreLog("StatusUpdate", name, FALSE)>>)]
        ELSE [reg |-> d.reg, o |-> Outcome("version", name, "done", 0, "", get \o d.log)]

SchemaVersionReconcile(name) ==
    /\ name \in svQueue
    /\ \E e1, e2 \in CallAnswers :
        LET r == SchemaVersionPass(name, versions, tombs, registry, instances, e1, e2)
        IN  /\ registry' = r.reg
            /\ last' = r.o
            /\ svQueue' = IF r.o.result = "done" THEN svQueue \ {name} ELSE svQueue
    /\ UNCHANGED <<schemas, versions, tombs, instances, pass, edits>>

----------------------------------------------------------------------------
(* The environment: users of the API server, and its garbage collector *)

\* A write by another client makes the copy a pass in flight holds stale
Touch(n) == [pass EXCEPT ![n].stale = (pass[n].pc = "apply")]

\* Children are removed together with the owner they are controlled by
Orphans(vers, store) == {v \in vers : v.owner # "" /\ ~store[v.owner].exists}

Cascade(store) ==
    LET dead == Orphans(versions, store)
    IN  /\ versions' = versions \ dead
        /\ tombs' = {t \in tombs : \A v \in dead : v.name # t.name} \cup dead
        /\ svQueue' = svQueue \cup {v.name : v \in dead}

\* kubectl apply of a new Schema whose content is one of texts
CreateSchemaFrom(n, texts) ==
    /\ edits < MaxEdits
    /\ edits' = edits + 1
    /\ ~schemas[n].exists
    /\ \E label \in Labels(n), subject \in SpecSubjects(n), target \in Targets,
          content \in texts :
        schemas' = [schemas EXCEPT ![n] = NewSchema(label, subject, target, content)]
    /\ pass' = Touch(n)
    /\ UNCHANGED <<versions, tombs, instances, registry, svQueue, last>>

CreateSchema(n) == CreateSchemaFrom(n, Contents(n))

\* kubectl apply that replaces spec.content with another one of texts
UpdateContentFrom(n, texts) ==
    /\ edits < MaxEdits
    /\ edits' = edits + 1
    /\ schemas[n].exists
    /\ \E content \in texts \ {schemas[n].content} :
        schemas' = [schemas EXCEPT ![n].content = content]
    /\ pass' = Touch(n)
    /\ UNCHANGED <<versions, tombs, instances, registry, svQueue, last>>

UpdateContent(n) == UpdateContentFrom(n, Contents(n))

\* kubectl apply that replaces spec.compatibilityLevel and nothing else
UpdateCompatibilityLevel(n) ==
    /\ edits < MaxEdits
    /\ edits' = edits + 1
    /\ schemas[n].exists
    /\ \E level \in CompatibilityLevels \ {schemas[n].compatibilityLevel} :
        schemas' = [schemas EXCEPT ![n].compatibilityLevel = level]
    /\ pass' = Touch(n)
    /\ UNCHANGED <<versions, tombs, instances, registry, svQueue, last>>

DeleteSchema(n) ==
    /\ edits < MaxEdits
    /\ edits' = edits + 1
    /\ schemas[n].exists
    /\ ~schemas[n].deleting
    /\ schemas' = [schemas EXCEPT ![n] = Settle([schemas[n] EXCEPT !.deleting = TRUE])]
    /\ pass' = Touch(n)
    /\ Cascade(schemas')
    /\ UNCHANGED <<instances, registry, last>>

CreateInstance(i) ==
    /\ edits < MaxEdits
    /\ edits' = edits + 1
    /\ i \notin instances
    /\ instances' = instances \cup {i}
    /\ UNCHANGED <<schemas, versions, tombs, registry, svQueue, pass, last>>

DeleteInstance(i) ==
    /\ edits < MaxEdits
    /\ edits' = edits + 1
    /\ i \in instances
    /\ instances' = instances \ {i}
    /\ UNCHANGED <<schemas, versions, tombs, registry, svQueue, pass, last>>

\* A SchemaVersion written by a client other than the Schema reconciler
AppliedSubjects == {"a-value"}

ApplySchemaVersion(subject, version) ==
    /\ edits < MaxEdits
    /\ edits' = edits + 1
    /\ Named(versions, VersionName(subject, version)) = {}
    /\ versions' = versions \cup
            {[EmptyVersion EXCEPT !.name = VersionName(subject, version),
                                  !.subject = subject, !.version = version,
                                  !.label = "sr"]}
    /\ tombs' = {t \in tombs : t.name # VersionName(subject, version)}
    /\ svQueue' = svQueue \cup {VersionName(subject, version)}
    /\ UNCHANGED <<schemas, instances, registry, pass, last>>

DeleteSchemaVersion(name) ==
    /\ edits < MaxEdits
    /\ edits' = edits + 1
    /\ Named(versions, name) # {}
    /\ versions' = versions \ Named(versions, name)
    /\ tombs' = tombs \cup Named(versions, name)
    /\ svQueue' = svQueue \cup {name}
    /\ UNCHANGED <<schemas, instances, registry, pass, last>>

----------------------------------------------------------------------------
(* Specifications of the current reconcilers.  The two reconcilers share no  *)
(* object of the store: Spec runs the Schema reconciler, SpecVersion the     *)
(* SchemaVersion reconciler over SchemaVersion objects and registry entries  *)
(* it did not create itself.                                                 *)

Init ==
    /\ schemas = [n \in SchemaNames |-> NoSchema]
    /\ versions = {}
    /\ tombs = {}
    /\ instances = InstanceNames
    /\ registry = {}
    /\ svQueue = {}
    /\ pass = [n \in SchemaNames |-> IdlePass]
    /\ last = NoPass
    /\ edits = 0

Next ==
    \/ \E n \in SchemaNames : CreateSchema(n)
    \/ \E n \in SchemaNames : UpdateContent(n)
    \/ \E n \in SchemaNames : DeleteSchema(n)
    \/ \E i \in InstanceNames : CreateInstance(i)
    \/ \E i \in InstanceNames : DeleteInstance(i)
    \/ \E n \in SchemaNames : Reconcile(n)
    \/ \E n \in SchemaNames : ReconcileApply(n)

Spec == Init /\ [][Next]_vars

\* The work queue hands every pending request to the reconciler: a pass that
\* can run does run, and a pass that has started finishes.  Nothing is assumed
\* about the users of the store or about the registry.
Fairness ==
    \A n \in SchemaNames : WF_vars(Reconcile(n)) /\ WF_vars(ReconcileApply(n))

SpecLive == Spec /\ Fairness

AppliedNames == {VersionName(s, v) : s \in AppliedSubjects, v \in 1..MaxVersions}

\* The registry may hold any history of the applied subjects
RegistryHistories ==
    UNION {{ {[subject |-> s, version |-> v, content |-> <<v>>, state |-> st[v]]
                : v \in 1..k}
             : st \in [1..k -> {"live", "soft", "gone"}]}
           : s \in AppliedSubjects, k \in 0..MaxVersions}

InitVersion ==
    /\ schemas = [n \in SchemaNames |-> NoSchema]
    /\ versions = {}
    /\ tombs = {}
    /\ instances = InstanceNames
    /\ registry \in RegistryHistories
    /\ svQueue = {}
    /\ pass = [n \in SchemaNames |-> IdlePass]
    /\ last = NoPass
    /\ edits = 0

NextVersion ==
    \/ \E i \in InstanceNames : CreateInstance(i)
    \/ \E i \in InstanceNames : DeleteInstance(i)
    \/ \E s \in AppliedSubjects, v \in 1..MaxVersions : ApplySchemaVersion(s, v)
    \/ \E name \in AppliedNames : DeleteSchemaVersion(name)
    \/ \E name \in AppliedNames : SchemaVersionReconcile(name)

SpecVersion == InitVersion /\ [][NextVersion]_vars

\* deleteSchemaVersion on its own: the function is applied to a removed
\* SchemaVersion of an applied subject, over any registry history and with any
\* answers to its two calls.  The outcome records the error it returns.
DeleteSchemaVersionCall(subject, version) ==
    /\ \E e1, e2 \in CallAnswers :
        LET obj == [EmptyVersion EXCEPT !.name = VersionName(subject, version),
                                       !.subject = subject, !.version = version,
                                       !.label = "sr"]
            d == deleteSchemaVersion(registry, obj, e1, e2)
        IN  /\ registry' = d.reg
            /\ last' = Outcome("version", obj.name,
                               IF d.err = "" THEN "done" ELSE "error",
                               IF d.err = "" THEN 0 ELSE Minute, d.err, d.log)
    /\ UNCHANGED <<schemas, versions, tombs, instances, svQueue, pass, edits>>

NextDelete ==
    \E s \in AppliedSubjects, v \in 1..MaxVersions : DeleteSchemaVersionCall(s, v)

SpecDelete == InitVersion /\ [][NextDelete]_vars

----------------------------------------------------------------------------
(* The chaining revision of the Schema reconciler (unnamed/part_005:71-310)  *)
(* and the activating SchemaVersion reconciler (unnamed/part_007).  This     *)
(* revision has no uniqueness check, no finalizer and no deletion path.      *)

ChainNames == {"a"}

\* strconv.Itoa(int(schema.Hash())) for each content a Schema is applied with,
\* computed once
ContentHash ==
    [c \in UNION {Contents(n) : n \in SchemaNames} \cup CollidingContents
        |-> Itoa32(Hash(c))]

\* A variant of Updated for which every pass sees changed content
UpdatedAlways(s) == TRUE

\* Updated: the content-hash label is absent or differs from the hash of the
\* content
Updated(s) == s.hashLabel = "" \/ s.hashLabel # ContentHash[s.content]

\* NotUpdated (internal/controller/utils.go): the label exists and equals the
\* hash of the content
NotUpdated(s) == s.hashLabel # "" /\ s.hashLabel = ContentHash[s.content]

\* strconv.Atoi of an annotation value; -1 stands for a conversion error
Atoi(t) ==
    IF \E k \in 0..(MaxVersions + 1) : Itoa(k) = t
    THEN CHOOSE k \in 0..(MaxVersions + 1) : Itoa(k) = t
    ELSE -1

\* A variant of createSchemaVersion that sets no annotation
createSchemaVersionUnannotated(n, obj, version, srName) ==
    [EmptyVersion EXCEPT !.name = VersionName(GetSubject(obj), version),
                         !.subject = GetSubject(obj),
                         !.version = version,
                         !.content = obj.content,
                         !.label = srName,
                         !.owner = n]

\* A variant of createSchemaVersion whose annotation names the new version
createSchemaVersionSelf(n, obj, version, srName) ==
    [EmptyVersion EXCEPT !.name = VersionName(GetSubject(obj), version),
                         !.subject = GetSubject(obj),
                         !.version = version,
                         !.content = obj.content,
                         !.prev = Itoa(version),
                         !.label = srName,
                         !.owner = n]

\* SchemaReconciler.createSchemaVersion with the controller reference set by
\* deploySchemaVersion
createSchemaVersion(n, obj, version, srName) ==
    [EmptyVersion EXCEPT !.name = VersionName(GetSubject(obj), version),
                         !.subject = GetSubject(obj),
                         !.version = version,
                         !.content = obj.content,
                         !.prev = Itoa(obj.latestVersion),
                         !.label = srName,
                         !.owner = n]

\* Status().Update of the SchemaVersion called name
SetVersionStatus(vers, name, active, ready) ==
    {IF v.name = name THEN [v EXCEPT !.active = active, !.ready = ready] ELSE v
        : v \in vers}

\* The SchemaVersion objects a pass created or changed: each gets an event
Events(old, new) == {v.name : v \in new \ old}

\* Reconcile of unnamed/part_005:71-223
\* The error of a pass whose Update of the content-hash label was refused
ErrUpdateContentHash == "failed to update schema content hash"

\* wEnv = "conflict": another client wrote the Schema after the pass read it,
\* and the Update that carries the content-hash label is answered Conflict
ReconcilePass(n, store, vers, reg, insts, rEnv, rMsg, gEnv, wEnv) ==
    LET s == store[n]
        fast == UpdateStatus(s, TRUE, SchemaDeployedSuccess)
        obj == IF s.subject = "" THEN [s EXCEPT !.subject = n] ELSE s
        inst == FetchSchemaRegistryInstance(obj.label, insts)
        noInst == UpdateStatus(obj, FALSE, inst.message)
        d == deploySchema(reg, obj, rEnv, rMsg, gEnv)
        failed == UpdateStatus(
            IF d.err.sentinel \in {ErrIncompatibleSchema, ErrInvalidSchemaOrType}
            THEN [obj EXCEPT !.registryError = UnwrapError(d.err)] ELSE obj,
            FALSE, "Failed to deploy schema to Schema Registry: " \o inst.sr)
        child == createSchemaVersion(n, obj, d.version, inst.sr)
        noChild == UpdateStatus(obj, FALSE,
                       "Failed to create new SchemaVersion CRD with version: "
                           \o Itoa(d.version))
        vers1 == SetVersionStatus(vers \cup {child}, child.name, TRUE, TRUE)
        oldName == VersionName(GetSubject(obj), obj.latestVersion)
        vers2 == IF obj.latestVersion # 0
                 THEN SetVersionStatus(vers1, oldName, FALSE, TRUE) ELSE vers1
        labelled == StoreUpdate(s, [obj EXCEPT !.hashLabel = ContentHash[obj.content]])
        done == [UpdateStatus(labelled, TRUE, SchemaDeployedSuccess)
                    EXCEPT !.latestVersion = d.version]
        status == <<StoreLog("StatusUpdate", n, TRUE)>>
        out(stored, vs, r, result, after, err, log) ==
            [stored |-> stored, vers |-> vs, reg |-> r,
             o |-> Outcome("schema", n, result, after, err, log)]
    IN  IF ~s.exists THEN out(s, vers, reg, "done", 0, "", <<>>)
        ELSE IF ~Updated(s) /\ s.ready
        THEN out(StoreStatusUpdate(s, fast), vers, reg, "requeue", Minute, "", status)
        ELSE IF inst.err # ""
        THEN out(StoreStatusUpdate(s, noInst), vers, reg, "requeue", Minute, "", status)
        ELSE IF d.err # NoError
        THEN out(StoreStatusUpdate(s, failed), vers, d.reg, "requeue", Minute, "",
                 d.log \o status)
        ELSE IF Named(vers, child.name) # {}
        THEN out(StoreStatusUpdate(s, noChild), vers, d.reg, "requeue", Minute, "",
                 d.log \o <<StoreLog("Create", child.name, FALSE)>> \o status)
        ELSE IF obj.latestVersion # 0 /\ Named(vers1, oldName) = {}
        THEN out(s, vers1, d.reg, "error", 0, "failed to get previous active schema version",
                 d.log \o <<StoreLog("Create", child.name, TRUE),
                            StoreLog("StatusUpdate", child.name, TRUE)>>)
        ELSE IF wEnv = "conflict"
        THEN out(s, vers2, d.reg, "error", 0, ErrUpdateContentHash,
                 d.log \o <<StoreLog("Create", child.name, TRUE),
                            StoreLog("StatusUpdate", child.name, TRUE)>>
                       \o (IF obj.latestVersion # 0
                           THEN <<StoreLog("StatusUpdate", oldName, TRUE)>> ELSE <<>>)
                       \o <<StoreLog("Update", n, FALSE)>>)
        ELSE out(StoreStatusUpdate(labelled, done), vers2, d.reg, "requeue", Minute, "",
                 d.log \o <<StoreLog("Create", child.name, TRUE),
                            StoreLog("StatusUpdate", child.name, TRUE)>>
                       \o (IF obj.latestVersion # 0
                           THEN <<StoreLog("StatusUpdate", oldName, TRUE)>> ELSE <<>>)
                       \o <<StoreLog("Update", n, TRUE)>> \o status)

\* The pass over n gets as far as deploySchema: only then do the answers of
\* the registry and of the later store writes matter
Deploys(n) ==
    /\ schemas[n].exists
    /\ Updated(schemas[n]) \/ ~schemas[n].ready
    /\ schemas[n].label \in instances

ReconcileChain(n) ==
    /\ \E rEnv \in (IF Deploys(n)
                    THEN RegisterAnswers(registry, GetSubject(
                             IF schemas[n].subject = ""
                             THEN [schemas[n] EXCEPT !.subject = n]
                             ELSE schemas[n]), schemas[n].content)
                    ELSE {"ok"}),
          rMsg \in Messages :
       \E gEnv \in (IF Deploys(n) /\ rEnv \in {"ok", "s500"} THEN CallAnswers
                    ELSE {"ok"}) :
       \E wEnv \in (IF Deploys(n) /\ rEnv \in {"ok", "s500"} /\ gEnv = "ok"
                       /\ edits < MaxEdits
                    THEN {"ok", "conflict"} ELSE {"ok"}) :
        LET r == ReconcilePass(n, schemas, versions, registry, instances,
                               rEnv, rMsg, gEnv, wEnv)
        IN  /\ schemas' = [schemas EXCEPT ![n] = r.stored]
            /\ versions' = r.vers
            /\ registry' = r.reg
            /\ svQueue' = svQueue \cup Events(versions, r.vers)
            /\ last' = r.o
            \* the write of the other client is one of the user operations
            /\ edits' = IF r.o.err = ErrUpdateContentHash THEN edits + 1 ELSE edits
    /\ UNCHANGED <<tombs, instances, pass>>

\* A variant of the reconciler that parses the annotation without asking
\* whether it is there
ActivatePassUnchecked(name, vers) ==
    LET g == GetVersion(vers, {}, name)
        vers1 == SetVersionStatus(vers, name, TRUE, TRUE)
        previousVersionInt == Atoi(g.obj.prev)
        oldName == VersionName(name, previousVersionInt)
        status == <<GetLog(name, TRUE), StoreLog("StatusUpdate", name, TRUE)>>
        out(vs, result, err, log) ==
            [vers |-> vs, o |-> Outcome("version", name, result, 0, err, log)]
    IN  IF ~g.found
        THEN out(vers, "error", "unable to fetch SchemaVersion", <<GetLog(name, FALSE)>>)
        ELSE IF previousVersionInt < 0
        THEN out(vers1, "error", "invalid syntax", status)
        ELSE IF previousVersionInt = 0 THEN out(vers1, "done", "", status)
        ELSE IF Named(vers1, oldName) = {}
        THEN out(vers1, "error", "unable to fetch previous active SchemaVersion",
                 status \o <<GetLog(oldName, FALSE)>>)
        ELSE out(vers1, "done", "",
                 status \o <<GetLog(oldName, TRUE), StoreLog("StatusUpdate", oldName, TRUE)>>)

\* Reconcile of unnamed/part_007:58-114.  The name of the previous version is
\* built from the name of the object itself, the previous version is read
\* into schemaVersion, and schemaVersion is what the last update writes.
ActivatePass(name, vers) ==
    LET g == GetVersion(vers, {}, name)
        vers1 == SetVersionStatus(vers, name, TRUE, TRUE)
        previousVersionInt == Atoi(g.obj.prev)
        oldName == VersionName(name, previousVersionInt)
        status == <<GetLog(name, TRUE), StoreLog("StatusUpdate", name, TRUE)>>
        out(vs, result, err, log) ==
            [vers |-> vs, o |-> Outcome("version", name, result, 0, err, log)]
    IN  IF ~g.found
        THEN out(vers, "error", "unable to fetch SchemaVersion", <<GetLog(name, FALSE)>>)
        ELSE IF g.obj.prev = ""
        THEN out(vers1, "done", "",
                 status \o <<LogEntry("Log", ErrInvalidSchemaVersionModification,
                                      0, FALSE, 0, "")>>)
        ELSE IF previousVersionInt < 0
        THEN out(vers1, "error", "invalid syntax", status)
        ELSE IF previousVersionInt = 0 THEN out(vers1, "done", "", status)
        ELSE IF Named(vers1, oldName) = {}
        THEN out(vers1, "error", "unable to fetch previous active SchemaVersion",
                 status \o <<GetLog(oldName, FALSE)>>)
        ELSE out(vers1, "done", "",
                 status \o <<GetLog(oldName, TRUE), StoreLog("StatusUpdate", oldName, TRUE)>>)

\* A pass that ends done leaves the queue unless its own status update raised
\* a new event for the object; a pass that ends in an error is retried
SchemaVersionActivate(name) ==
    /\ name \in svQueue
    /\ LET r == ActivatePass(name, versions)
       IN  /\ versions' = r.vers
           /\ last' = r.o
           /\ svQueue' = IF r.o.result = "done" /\ r.vers = versions
                         THEN svQueue \ {name} ELSE svQueue
    /\ UNCHANGED <<schemas, tombs, instances, registry, pass, edits>>

ChainVersionNames ==
    {VersionName(GetSubject([NoSchema EXCEPT !.subject = s]), v)
        : s \in {"a", "x"}, v \in 1..(MaxVersions + 1)}

InitChain == Init

NextChain ==
    \/ \E n \in ChainNames : CreateSchema(n)
    \/ \E n \in ChainNames : UpdateContent(n)
    \/ \E n \in ChainNames : DeleteSchema(n)
    \/ \E i \in InstanceNames : CreateInstance(i)
    \/ \E i \in InstanceNames : DeleteInstance(i)
    \/ \E n \in ChainNames : ReconcileChain(n)
    \/ \E name \in ChainVersionNames : SchemaVersionActivate(name)

SpecChain == InitChain /\ [][NextChain]_vars

\* The chaining reconciler over a Schema whose content is one of two texts
\* with the same hash
NextHash ==
    \/ \E n \in ChainNames : CreateSchemaFrom(n, CollidingContents)
    \/ \E n \in ChainNames : UpdateContentFrom(n, CollidingContents)
    \/ \E n \in ChainNames : DeleteSchema(n)
    \/ \E n \in ChainNames : ReconcileChain(n)
    \/ \E name \in ChainVersionNames : SchemaVersionActivate(name)

SpecHash == InitChain /\ [][NextHash]_vars

\* The Schema reconciler over one Schema whose compatibility level is edited
NextCompat ==
    \/ \E n \in ChainNames : CreateSchema(n)
    \/ \E n \in ChainNames : UpdateContent(n)
    \/ \E n \in ChainNames : UpdateCompatibilityLevel(n)
    \/ \E n \in ChainNames : DeleteSchema(n)
    \/ \E n \in ChainNames : Reconcile(n)
    \/ \E n \in ChainNames : ReconcileApply(n)

SpecCompat == Init /\ [][NextCompat]_vars

\* The SchemaVersion reconciler of unnamed/part_007 over SchemaVersion objects
\* written by a client other than the Schema reconciler: the previous-active
\* annotation is absent or holds any version number
Annotations == {"", "0", "1"}

ApplyAnnotated(subject, version, prev) ==
    /\ edits < MaxEdits
    /\ edits' = edits + 1
    /\ Named(versions, VersionName(subject, version)) = {}
    /\ versions' = versions \cup
            {[EmptyVersion EXCEPT !.name = VersionName(subject, version),
                                  !.subject = subject, !.version = version,
                                  !.prev = prev, !.label = "sr"]}
    /\ tombs' = {t \in tombs : t.name # VersionName(subject, version)}
    /\ svQueue' = svQueue \cup {VersionName(subject, version)}
    /\ UNCHANGED <<schemas, instances, registry, pass, last>>

NextActivate ==
    \/ \E s \in AppliedSubjects, v \in 1..MaxVersions, prev \in Annotations :
            ApplyAnnotated(s, v, prev)
    \/ \E name \in AppliedNames : DeleteSchemaVersion(name)
    \/ \E name \in AppliedNames : SchemaVersionActivate(name)

SpecActivate == Init /\ [][NextActivate]_vars

\* hash.Hash and Schema.Hash on their own: Schemas are stored with any payload
\* of at most MaxLen bytes, and the fingerprint of each is computed and put in
\* its content-hash label as unnamed/part_005:195-201 does
MaxLen == 3
Bytes == {97, 98}

RECURSIVE SeqsUpTo(_)
SeqsUpTo(k) ==
    IF k = 0 THEN {<<>>}
    ELSE SeqsUpTo(k - 1) \cup {Append(c, b) : c \in SeqsUpTo(k - 1), b \in Bytes}

Payloads == SeqsUpTo(MaxLen)

InitFingerprint ==
    /\ schemas \in {[n \in SchemaNames |-> NewSchema("sr", n, "VALUE", c[n])]
                        : c \in [SchemaNames -> Payloads]}
    /\ versions = {}
    /\ tombs = {}
    /\ instances = InstanceNames
    /\ registry = {}
    /\ svQueue = {}
    /\ pass = [n \in SchemaNames |-> IdlePass]
    /\ last = NoPass
    /\ edits = 0

Fingerprint(n) ==
    /\ schemas[n].exists
    /\ schemas[n].hashLabel = ""
    /\ schemas' = [schemas EXCEPT ![n].hashLabel = Itoa32(Hash(schemas[n].content))]
    /\ UNCHANGED <<versions, tombs, instances, registry, svQueue, pass, last, edits>>

NextFingerprint == \E n \in SchemaNames : Fingerprint(n)

SpecFingerprint == InitFingerprint /\ [][NextFingerprint]_vars

\* The current Schema reconciler against a registry whose 409 and 422 answers
\* may lack the message field
NextResponses ==
    \/ \E n \in ChainNames : CreateSchema(n)
    \/ \E n \in ChainNames : UpdateContent(n)
    \/ \E n \in ChainNames : DeleteSchema(n)
    \/ \E n \in ChainNames : Reconcile(n)
    \/ \E n \in ChainNames : ReconcileApplyFrom(n, ResponseMessages)

SpecResponses == Init /\ [][NextResponses]_vars

----------------------------------------------------------------------------
(* Properties *)

\* The registry calls of a call log
RegistryCalls(log) ==
    SelectSeq(log, LAMBDA e : e.op \in {"Register", "GetLatest", "DeleteSubject",
                                        "DeleteVersion"})

\* spec.subject, or the name when it is empty, then "-" and the lowercased target
EffectiveSubject(n) ==
    GetSubject(IF schemas[n].subject = "" THEN [schemas[n] EXCEPT !.subject = n]
               ELSE schemas[n])

\* The Schema converged and its content is the content it converged on
Converged(n) ==
    /\ schemas[n].exists
    /\ schemas[n].ready
    /\ NotUpdated(schemas[n])

\* The pass that ended last ran the deletion path of its Schema and removed
\* the finalizer
FinalizerRemoved ==
    /\ last.kind = "schema"
    /\ Len(last.log) >= 3
    /\ last.log[1].op = "DeleteSubject"
    /\ ~last.log[1].permanent
    /\ last.log[3] = StoreLog("Update", last.name, TRUE)

\* The pass that ended last was handed the deletion event of the removed
\* SchemaVersion t
DeletionPass(t) ==
    /\ last.kind = "version"
    /\ last.name = t.name
    /\ Named(versions, t.name) = {}
    /\ last.log[1] = GetLog(t.name, FALSE)

\* The call that registered content in the pass that ended last
RegisterCalls == {i \in 1..Len(last.log) : last.log[i].op = "Register"}

\* C1: a pass of the chaining reconciler over a Schema that has converged
\* (ready, content-hash label equal to the hash of its content) makes no
\* registry call, leaves the registry as it is and leaves ready=true.
C1_FastPathNoRegistryCall ==
    [][\A n \in ChainNames :
          (Converged(n) /\ ReconcileChain(n))
              => /\ RegistryCalls(last'.log) = <<>>
                 /\ registry' = registry
                 /\ schemas'[n].ready]_vars

C1_Witness ==
    /\ Converged("a")
    /\ last.kind = "schema"
    /\ last.name = "a"
    /\ last.log = <<StoreLog("StatusUpdate", "a", TRUE)>>
    /\ last.result = "requeue"

\* C2: two distinct Schemas that carry the same instance label and have the
\* same effective subject never both have stored status ready=true.
C2_AtMostOneReady ==
    \A n, m \in SchemaNames :
        (/\ n # m
         /\ schemas[n].exists /\ schemas[m].exists
         /\ schemas[n].label = schemas[m].label
         /\ EffectiveSubject(n) = EffectiveSubject(m))
            => ~(schemas[n].ready /\ schemas[m].ready)

C2_Witness ==
    /\ schemas["a"].exists /\ schemas["b"].exists
    /\ schemas["a"].label = schemas["b"].label
    /\ EffectiveSubject("a") = EffectiveSubject("b")
    /\ schemas["a"].ready
    /\ last.name = "b"
    /\ last.result = "done"

\* The SchemaVersion passes that are still queued change nothing any more
VersionsSettled == \A name \in svQueue : ActivatePass(name, versions).vers = versions

\* C3: once a Schema has converged on its content and the SchemaVersion
\* reconciles this triggered have run to completion, exactly one of the
\* SchemaVersion children of the Schema has stored status active=true.
C3_ExactlyOneActive ==
    \A n \in ChainNames :
        (Converged(n) /\ schemas[n].latestVersion >= 1 /\ VersionsSettled)
            => Cardinality({v \in versions : v.owner = n /\ v.active}) = 1

\* C4: after a pass whose register call was answered 409 or 422, the stored
\* status.registryError is the message of the registry's response.
C4_RegistryErrorVerbatim ==
    \A i \in RegisterCalls :
        (/\ last.kind = "schema"
         /\ last.result = "requeue"
         /\ last.log[i].code \in {StatusConflict, StatusUnprocessableEntity}
         /\ schemas[last.name].exists)
            => schemas[last.name].registryError = last.log[i].msg

\* C5: after a pass of Schema n that stopped at the uniqueness check because
\* another Schema with the same label has the same effective subject, the
\* stored status of n has ready=false and a message that names the subject.
C5_NotUniqueStatusStored ==
    \A n, m \in SchemaNames :
        (/\ n # m
         /\ schemas[n].exists /\ schemas[m].exists
         /\ ~schemas[n].finalizer
         /\ schemas[n].label = schemas[m].label
         /\ EffectiveSubject(n) = EffectiveSubject(m)
         /\ last = Outcome("schema", n, "done", 0, "", <<StoreLog("Update", n, TRUE)>>))
            => /\ ~schemas[n].ready
               /\ schemas[n].message =
                      "Subject " \o EffectiveSubject(n) \o
                      " is not unique in Schema Registry " \o schemas[n].label

\* C6: a pass removes the finalizer only after the call that removes the
\* subject from the registry succeeded (or found the subject absent).
C6_FinalizerAfterRemoval ==
    FinalizerRemoved => last.log[1].code \in {StatusOK, StatusNotFound}

\* C7: a SchemaVersion pass that finds the object gone issues registry delete
\* calls, all of them for the subject and the version of the removed object.
C7_DeletesThatVersion ==
    \A t \in tombs :
        DeletionPass(t)
            => /\ RegistryCalls(last.log) # <<>>
               /\ \A i \in 1..Len(RegistryCalls(last.log)) :
                      /\ RegistryCalls(last.log)[i].op = "DeleteVersion"
                      /\ RegistryCalls(last.log)[i].subject = t.subject
                      /\ RegistryCalls(last.log)[i].version = t.version

\* C8: once the deletion path of a Schema has removed the finalizer and the
\* object is purged, every registry entry of its subject is permanently
\* deleted.
C8_PurgedMeansRemoved ==
    (FinalizerRemoved /\ ~schemas[last.name].exists)
        => \A e \in Entries(registry, last.log[1].subject) : e.state = "gone"

\* C9: the deletion pass of a SchemaVersion whose (subject, version) entry is
\* absent from the registry ends with outcome done and no error.
C9_AbsentEntryIsDone ==
    \A t \in tombs :
        (/\ DeletionPass(t)
         /\ \A e \in Entries(registry, t.subject) :
                e.version = t.version => e.state = "gone")
            => last.result = "done" /\ last.err = ""

\* C10: a pass whose register call was answered 500 does not end as a
\* success: the stored status is not ready=true.
C10_RegisterFailureFails ==
    \A i \in RegisterCalls :
        (/\ last.kind = "schema"
         /\ last.log[i].code = StatusInternalServerError
         /\ schemas[last.name].exists)
            => /\ last.after # SyncInterval
               /\ ~schemas[last.name].ready

\* The codes with which the registry rejects a registration
Rejections == {StatusConflict, StatusUnprocessableEntity}

\* C11: when the pass that ended last attempted a registration, was not
\* rejected with 409 or 422 and stored its status, the stored registryError
\* of that Schema is empty.
C11_RegistryErrorOnlyAfterRejection ==
    (/\ last.kind = "schema"
     /\ RegisterCalls # {}
     /\ \A i \in RegisterCalls : last.log[i].code \notin Rejections
     /\ last.result = "requeue"
     /\ schemas[last.name].exists)
        => schemas[last.name].registryError = ""

\* The message stored for a Schema that has no instance label, and for one
\* whose label names no stored instance
LabelNotFoundMessage == "Instance label: " \o SchemaRegistryLabelName \o " not found"

InstanceNotFoundMessage == "Schema Registry instance not found"

\* C12: a pass over a stored Schema that has no instance label, or whose
\* label names an instance that is not stored, stores ready=false with the
\* message of that error, makes no registry call and ends with a requeue
\* after one minute.
C12_AssociationErrorReported ==
    [][\A n \in SchemaNames :
          (/\ schemas[n].exists
           /\ schemas[n].label \notin instances
           /\ Reconcile(n))
              => /\ ~schemas'[n].ready
                 /\ schemas'[n].message =
                        (IF schemas[n].label = "" THEN LabelNotFoundMessage
                         ELSE InstanceNotFoundMessage)
                 /\ last'.name = n
                 /\ RegistryCalls(last'.log) = <<>>
                 /\ registry' = registry
                 /\ last'.result = "requeue"
                 /\ last'.after = Minute
                 /\ last'.err = ""]_vars

C12_Witness ==
    /\ schemas["a"].exists /\ schemas["a"].label = ""
    /\ ~schemas["a"].ready /\ schemas["a"].message = LabelNotFoundMessage
    /\ schemas["b"].exists /\ schemas["b"].label \notin instances
    /\ ~schemas["b"].ready /\ schemas["b"].message = InstanceNotFoundMessage
    /\ last = Outcome("schema", "b", "requeue", Minute, "",
                      <<StoreLog("StatusUpdate", "b", TRUE)>>)

\* The pass whose call log is log had its register call answered 200 and was
\* then told the latest version of the subject
RegisteredIn(log) ==
    /\ \E i \in 1..Len(log) : log[i].op = "Register" /\ log[i].code = StatusOK
    /\ \E j \in 1..Len(log) : log[j].op = "GetLatest" /\ log[j].code = StatusOK

ReportedVersion(log) ==
    (CHOOSE e \in {log[j] : j \in 1..Len(log)} : e.op = "GetLatest").version

\* C13: after a pass whose registration succeeded, the stored Schema carries
\* the content-hash label that is the decimal hash of its content, its
\* latestVersion is the version the registry reported, and it is ready=true.
C13_CommitAfterRegistration ==
    [][\A n \in ChainNames :
          (ReconcileChain(n) /\ RegisteredIn(last'.log))
              => /\ schemas'[n].hashLabel = Itoa32(Hash(schemas'[n].content))
                 /\ schemas'[n].latestVersion = ReportedVersion(last'.log)
                 /\ schemas'[n].ready]_vars

\* C14: the SchemaVersion a pass creates for Schema n is named after
\* spec.subject (the name n when spec.subject is empty), "-", the lowercased
\* target, "-v" and the version the registry reported.
C14_VersionNamedAfterSubject ==
    [][\A n \in ChainNames :
          \A v \in versions' :
              (Named(versions, v.name) = {} /\ v.owner = n)
                  => v.name =
                        (IF schemas[n].subject = "" THEN n ELSE schemas[n].subject)
                            \o "-" \o ToLower(schemas[n].target)
                            \o "-v" \o Itoa(ReportedVersion(last'.log))]_vars

\* Schema a, applied without a subject, got the child a-value-v1 in the pass
\* that ended last
C14_Witness ==
    /\ \E v \in versions :
          v.name = "a-value-v1" /\ v.owner = "a" /\ v.version = 1 /\ v.prev = "0"
    /\ last.name = "a"
    /\ \E i \in 1..Len(last.log) : last.log[i] = StoreLog("Create", "a-value-v1", TRUE)

\* No other stored Schema with the instance label of n has the effective
\* subject of n
SubjectUnshared(n) ==
    \A m \in SchemaNames \ {n} :
        (schemas[m].exists /\ schemas[m].label = schemas[n].label)
            => EffectiveSubject(m) # EffectiveSubject(n)

\* C15: a pass over a stored, labelled Schema that is not being deleted and
\* whose effective subject no other Schema of its instance shares gets
\* through the uniqueness check and goes on to the finalizer and upsert.
C15_UnsharedSubjectPasses ==
    [][\A n \in SchemaNames :
          (/\ Reconcile(n)
           /\ schemas[n].exists
           /\ ~schemas[n].deleting
           /\ schemas[n].label \in instances
           /\ SubjectUnshared(n))
              => pass'[n].pc = "apply"]_vars

Predecessors(vers, v) ==
    {w \in vers : w.subject = v.subject /\ w.version > 0 /\ Itoa(w.version) = v.prev}

\* C17: a pass of the SchemaVersion reconciler over a SchemaVersion whose
\* annotation names a stored sibling of version p > 0 ends with that sibling
\* stored as active=false, ready=true and the SchemaVersion itself as
\* active=true.
C17_PredecessorDeactivated ==
    [][\A name \in ChainVersionNames :
          SchemaVersionActivate(name)
              => \A v \in Named(versions, name) :
                    \A w \in Predecessors(versions, v) :
                        /\ \A w2 \in Named(versions', w.name) :
                              ~w2.active /\ w2.ready
                        /\ \A v2 \in Named(versions', name) : v2.active]_vars

\* C18: a pass of the SchemaVersion reconciler over a SchemaVersion that is
\* stored as active=false, ready=true (the status its successor gave it)
\* leaves it active=false.
C18_DeactivatedStaysInactive ==
    [][\A name \in ChainVersionNames :
          SchemaVersionActivate(name)
              => \A v \in Named(versions, name) :
                    (~v.active /\ v.ready)
                        => \A v2 \in Named(versions', name) : ~v2.active]_vars

\* C19: in the pass that ended last, every soft removal of a subject is
\* followed by a permanent removal of the same subject, whatever the soft
\* removal returned.
C19_PermanentAfterSoft ==
    \A i \in 1..Len(last.log) :
        (/\ last.kind = "schema"
         /\ last.log[i].op = "DeleteSubject"
         /\ ~last.log[i].permanent)
            => \E j \in (i + 1)..Len(last.log) :
                  /\ last.log[j].op = "DeleteSubject"
                  /\ last.log[j].permanent
                  /\ last.log[j].subject = last.log[i].subject

\* The answers to a delete call that are not errors, or are the errors the
\* deletion tolerates (not found, already soft-deleted: both come as 404)
Tolerated == {StatusOK, StatusNotFound}

\* C20: a call of deleteSchemaVersion issues the soft delete of (subject,
\* version) and then the permanent delete of the same pair, and it returns an
\* error when either call failed in transport or was answered with a status
\* other than 200 and 404.
C20_SoftThenPermanentOrFail ==
    last.kind = "version"
        => /\ Len(last.log) = 2
           /\ last.log[1].op = "DeleteVersion" /\ ~last.log[1].permanent
           /\ last.log[2].op = "DeleteVersion" /\ last.log[2].permanent
           /\ last.log[2].subject = last.log[1].subject
           /\ last.log[2].version = last.log[1].version
           /\ (\E i \in 1..2 : last.log[i].code \notin Tolerated) => last.err # ""

C22_DeletesRegisteredSubject ==
    [][\A n \in SchemaNames :
          /\ (schemas[n].exists /\ schemas'[n].exists)
                => EffectiveSubject(n)' = EffectiveSubject(n)
          /\ (schemas[n].exists /\ pass[n].pc = "apply" /\ ReconcileApply(n))
                => \A i \in 1..Len(last'.log) :
                      last'.log[i].op = "Register"
                          => last'.log[i].subject = EffectiveSubject(n)
          /\ (schemas[n].exists /\ schemas[n].deleting /\ Reconcile(n))
                => \A i \in 1..Len(last'.log) :
                      last'.log[i].op = "DeleteSubject"
                          => last'.log[i].subject = EffectiveSubject(n)]_vars

\* The deletion path of Schema a, applied without a subject and registered as
\* a-value, removed a-value from the registry
C22_Witness ==
    /\ last.kind = "schema" /\ last.name = "a"
    /\ Len(last.log) >= 2
    /\ last.log[1] = LogEntry("DeleteSubject", "a-value", 0, FALSE, StatusOK, "")
    /\ last.log[2] = LogEntry("DeleteSubject", "a-value", 0, TRUE, StatusOK, "")
    /\ \E e \in Entries(registry, "a-value") : e.state = "gone"

\* Schema n carries the deletion timestamp and the finalizer, and its
\* instance label is missing or names no stored instance
AwaitsInstance(n) ==
    /\ schemas[n].exists
    /\ schemas[n].deleting
    /\ schemas[n].finalizer
    /\ schemas[n].label \notin instances

\* C23: a Schema that is being deleted, holds the finalizer and has no
\* resolvable instance does not stay in that condition forever.
C23_DeletionNotBlockedByInstance ==
    \A n \in SchemaNames : AwaitsInstance(n) ~> ~AwaitsInstance(n)

\* A pass over Schema n created a SchemaVersion child and ended before the
\* status of the Schema was committed: the child is newer than latestVersion
Interrupted(n) ==
    /\ schemas[n].exists
    /\ \E v \in versions : v.owner = n /\ v.version > schemas[n].latestVersion

\* C24: a pass over an interrupted Schema in which the registry accepts the
\* registration and reports the latest version, and the store refuses no
\* write, commits: the Schema is stored ready=true with the hash label of its
\* content.
C24_InterruptedPassRecovers ==
    [][\A n \in ChainNames :
          (/\ Interrupted(n)
           /\ schemas[n].label \in instances
           /\ ReconcileChain(n)
           /\ RegisteredIn(last'.log)
           /\ last'.err = "")
              => /\ schemas'[n].ready
                 /\ NotUpdated(schemas'[n])]_vars

\* The SchemaVersion objects that the step added to the store
Created == {v \in versions' : Named(versions, v.name) = {}}

C26_AnnotationIsStoredLatest ==
    [][\A n \in ChainNames : \A v \in Created :
          v.owner = n
              => /\ v.prev = Itoa(schemas[n].latestVersion)
                 /\ schemas[n].latestVersion = 0 => v.prev = "0"]_vars

\* The pass that ended last created the second version of a-value, annotated
\* with 1, next to the first version, annotated with 0
C26_Witness ==
    /\ last.name = "a"
    /\ \E i \in 1..Len(last.log) : last.log[i] = StoreLog("Create", "a-value-v2", TRUE)
    /\ \E v \in versions : v.name = "a-value-v1" /\ v.owner = "a" /\ v.prev = "0"
    /\ \E v \in versions : v.name = "a-value-v2" /\ v.owner = "a" /\ v.prev = "1"

\* C27: a pass creates a SchemaVersion for Schema n only after its register
\* call was answered 200, and every stored SchemaVersion names a version that
\* the registry assigned under its subject.
C27_ChildOnlyAfterRegistration ==
    [][\A n \in ChainNames :
          /\ (\E v \in Created : v.owner = n)
                => \E i \in 1..Len(last'.log) :
                      /\ last'.log[i].op = "Register"
                      /\ last'.log[i].code = StatusOK
          /\ \A v \in versions' :
                \E e \in Entries(registry', v.subject) : e.version = v.version]_vars

\* Another stored Schema with the instance label of n spells out the
\* effective subject of n: the uniqueness scan of a pass over n finds it
Contended(n) ==
    \E m \in SchemaNames \ {n} :
        /\ schemas[m].exists /\ schemas[m].label = schemas[n].label
        /\ schemas[m].subject # ""
        /\ GetSubject(schemas[m]) = EffectiveSubject(n)

\* C28: a pass over a stored Schema n that has its instance and reaches the
\* uniqueness check while another Schema holds its subject makes no registry
\* call, leaves the finalizer and the SchemaVersion objects as they were and
\* ends done without a requeue.
C28_NotUniqueIsInert ==
    [][\A n \in SchemaNames :
          (/\ schemas[n].exists
           /\ schemas[n].label \in instances
           /\ Contended(n)
           /\ Reconcile(n)
           /\ schemas[n].deleting
                 => \E i \in 1..Len(last'.log) : last'.log[i] = StoreLog("Update", n, TRUE))
              => /\ last'.kind = "schema" /\ last'.name = n
                 /\ RegistryCalls(last'.log) = <<>>
                 /\ last'.result = "done" /\ last'.after = 0
                 /\ schemas'[n].exists
                 /\ schemas'[n].finalizer = schemas[n].finalizer
                 /\ versions' = versions]_vars

\* C29: a pass over Schema n that makes a register call has the finalizer
\* stored on n by then: the Schema it read carried it, or the write that adds
\* it was accepted earlier in the pass, and the Schema is still stored with
\* it when the pass ends.
C29_FinalizerBeforeRegister ==
    [][\A n \in SchemaNames :
          (pass[n].pc = "apply" /\ ReconcileApply(n))
              => \A i \in 1..Len(last'.log) :
                    last'.log[i].op = "Register"
                        => /\ schemas'[n].exists /\ schemas'[n].finalizer
                           /\ \/ pass[n].obj.finalizer /\ schemas[n].finalizer
                              \/ \E j \in 1..(i - 1) :
                                    last'.log[j] = StoreLog("Update", n, TRUE)]_vars

\* The pass that ended last stored the finalizer of Schema a and then had
\* its register call answered 200
C29_Witness ==
    /\ last.kind = "schema" /\ last.name = "a" /\ Len(last.log) >= 2
    /\ last.log[1] = StoreLog("Update", "a", TRUE)
    /\ last.log[2].op = "Register" /\ last.log[2].code = StatusOK
    /\ schemas["a"].exists /\ schemas["a"].finalizer
    /\ Live(registry, last.log[2].subject) # {}

\* The content that Schema n last converged on differs from its content: the
\* SchemaVersion of its latestVersion holds another text
ChangedSinceConvergence(n) ==
    /\ schemas[n].exists /\ schemas[n].ready /\ schemas[n].hashLabel # ""
    /\ \E v \in versions :
          /\ v.owner = n /\ v.version = schemas[n].latestVersion
          /\ v.content # schemas[n].content

\* C30: a pass over a Schema that has its instance and whose content differs
\* from the content it last converged on does not take the fast path: it
\* calls register.
C30_ChangeNeverSkipped ==
    [][\A n \in ChainNames :
          (/\ ChangedSinceConvergence(n)
           /\ schemas[n].label \in instances
           /\ ReconcileChain(n))
              => \E i \in 1..Len(last'.log) : last'.log[i].op = "Register"]_vars

\* The compatibility level the registry applies to a subject.  No call of the
\* reconcilers sets a level for a subject, so it is the level the instance
\* was deployed with, "NONE" unless the SchemaRegistry object says otherwise
RegistryLevel(subject) == "NONE"

\* C31: a pass over a Schema whose spec.compatibilityLevel differs from the
\* level the registry applies to its subject, and that gets as far as a
\* successful registration, calls set-compatibility for the subject with the
\* level of the spec.
C31_CompatibilityLevelApplied ==
    [][\A n \in ChainNames :
          (/\ pass[n].pc = "apply"
           /\ pass[n].obj.compatibilityLevel # RegistryLevel(GetSubject(pass[n].obj))
           /\ ReconcileApply(n)
           /\ last'.result = "requeue" /\ last'.after = SyncInterval)
              => \E i \in 1..Len(last'.log) :
                    /\ last'.log[i].op = "UpdateSubjectLevelConfig"
                    /\ last'.log[i].subject = GetSubject(pass[n].obj)
                    /\ last'.log[i].msg = pass[n].obj.compatibilityLevel]_vars

\* The calls so far of the pass over n that is in flight, or else of the pass
\* that ended last
CheckLog(n) == IF pass[n].pc = "apply" THEN pass[n].log ELSE last.log

\* C32: a pass over a Schema that is being deleted, holds the finalizer and
\* has its instance, whose subject the registry holds no entry of and whose
\* soft removal the registry answers with "not found", gets through the deletion path: no error of the removal or of the
\* finalizer update is returned, the finalizer update is accepted, the Schema
\* leaves the store and the registry is as it was.
C32_RemovalIdempotent ==
    [][\A n \in SchemaNames :
          (/\ schemas[n].exists /\ schemas[n].deleting /\ schemas[n].finalizer
           /\ schemas[n].label \in instances
           /\ Live(registry, EffectiveSubject(n)) = {}
           /\ Soft(registry, EffectiveSubject(n)) = {}
           /\ Reconcile(n)
           /\ CheckLog(n)'[1].code = StatusNotFound)
              => /\ pass'[n].pc = "idle"
                    => last'.err \notin {"failed to delete schema",
                                         "failed to remove finalizer from schema"}
                 /\ \E i \in 1..Len(CheckLog(n)') :
                       CheckLog(n)'[i] = StoreLog("Update", n, TRUE)
                 /\ ~schemas'[n].exists
                 /\ registry' = registry]_vars

\* The subject a-value was removed for good by an earlier deletion; Schema a
\* was applied again, deleted again, and the pass that ended last was told
\* "not found" twice and released the Schema
C32_Witness ==
    /\ last.kind = "schema" /\ last.name = "a" /\ Len(last.log) >= 3
    /\ last.log[1] = LogEntry("DeleteSubject", "a-value", 0, FALSE, StatusNotFound, "")
    /\ last.log[2] = LogEntry("DeleteSubject", "a-value", 0, TRUE, StatusNotFound, "")
    /\ last.log[3] = StoreLog("Update", "a", TRUE)
    /\ ~schemas["a"].exists
    /\ \E e \in Entries(registry, "a-value") : e.state = "gone"

\* C33: a pass of the SchemaVersion reconciler over an object whose
\* previous-active annotation is absent reports
\* ErrInvalidSchemaVersionModification and ends done; over an object whose
\* annotation is "0" it ends done; in both cases every other SchemaVersion is
\* left as it was
Reported(log, what) ==
    \E i \in 1..Len(log) : log[i] = LogEntry("Log", what, 0, FALSE, 0, "")

Others(vers, name) == {v \in vers : v.name # name}

C33_NoPreviousEndsDone ==
    [][\A name \in AppliedNames :
          (/\ name \in svQueue
           /\ \E v \in Named(versions, name) : v.prev \in {"", "0"}
           /\ SchemaVersionActivate(name))
              => /\ last'.result = "done" /\ last'.after = 0 /\ last'.err = ""
                 /\ Others(versions', name) = Others(versions, name)
                 /\ (\E v \in Named(versions, name) : v.prev = "")
                        <=> Reported(last'.log, ErrInvalidSchemaVersionModification)]_vars

C33_Witness ==
    /\ last.kind = "version" /\ last.result = "done"
    /\ Reported(last.log, ErrInvalidSchemaVersionModification)
    /\ \E v \in versions : v.name = last.name /\ v.prev = "" /\ v.active
    /\ \E w \in versions : w.name # last.name /\ w.prev = "0" /\ w.active

\* C34: when the register call or the fetch of the latest version of a pass
\* failed (no answer, or an answer other than 200) and the pass stored its
\* status, the stored status is ready=false with a message and the pass ends
\* with a requeue after one minute
FailedCalls(log) ==
    {i \in 1..Len(log) : /\ log[i].op \in {"Register", "GetLatest"}
                         /\ log[i].code # StatusOK}

C34_FailureBacksOff ==
    [][\A n \in SchemaNames :
          (/\ pass[n].pc = "apply"
           /\ ReconcileApply(n)
           /\ FailedCalls(last'.log) # {}
           /\ last'.log[Len(last'.log)] = StoreLog("StatusUpdate", n, TRUE))
              => /\ ~schemas'[n].ready
                 /\ schemas'[n].message # ""
                 /\ last'.result = "requeue" /\ last'.after = Minute]_vars

\* C35: every pass of the Schema reconciler that ends without an error and
\* leaves the Schema stored ready, after a registration or on the
\* unchanged-content path, is requeued after SyncInterval seconds
C35_ReadyRequeuesAtSyncInterval ==
    [][\A n \in ChainNames :
          (/\ schemas'[n].exists /\ schemas'[n].ready
           /\ ReconcileChain(n)
           /\ last'.err = "")
              => last'.result = "requeue" /\ last'.after = SyncInterval]_vars

\* C36: when a write to the store (Create, Update or Status().Update) is
\* refused during a pass of the Schema reconciler, that write is the last call
\* of the pass and the pass ends in an error
RefusedWrites(log) ==
    {i \in 1..Len(log) : /\ log[i].op \in {"Create", "Update", "StatusUpdate"}
                         /\ log[i].code = StatusConflict}

C36_RefusedWriteEndsPass ==
    [][\A n \in ChainNames :
          (/\ schemas[n].exists
           /\ ReconcileChain(n)
           /\ RefusedWrites(last'.log) # {})
              => /\ RefusedWrites(last'.log) = {Len(last'.log)}
                 /\ last'.result = "error" /\ last'.err # ""]_vars

\* C37: no pass of the Schema reconciler ends in a panic, whatever the store
\* and the registry answer, answers without a message field included
C37_NoPanic ==
    last.result # "panic"

\* C38: the pass that ended last returned exactly one of: done (no delay, no
\* error), requeue after a delay (no error), or an error (no delay)
C38_OneOfThreeOutcomes ==
    last.kind # "none"
        => \/ last.result = "done" /\ last.after = 0 /\ last.err = ""
           \/ last.result = "requeue" /\ last.after > 0 /\ last.err = ""
           \/ last.result = "error" /\ last.after = 0 /\ last.err # ""

\* Two payloads hold the same characters, each as often as the other
SameCharacters(c, d) ==
    /\ Len(c) = Len(d)
    /\ \A b \in Bytes : Cardinality({i \in 1..Len(c) : c[i] = b})
                            = Cardinality({i \in 1..Len(d) : d[i] = b})

\* d is c with two adjacent, different characters exchanged
AdjacentSwap(c, d) ==
    \E i \in 1..(Len(c) - 1) :
        /\ c[i] # c[i + 1]
        /\ d = [c EXCEPT ![i] = c[i + 1], ![i + 1] = c[i]]

Fingerprinted(n) == schemas[n].exists /\ schemas[n].hashLabel # ""

\* C39 as stated: the fingerprints of two payloads that hold the same
\* characters in any order are equal
C39_OrderIndependent ==
    \A m, n \in SchemaNames :
        (/\ Fingerprinted(m) /\ Fingerprinted(n)
         /\ SameCharacters(schemas[m].content, schemas[n].content))
            => schemas[m].hashLabel = schemas[n].hashLabel

\* C39 as amended: the fingerprint is the 32-bit FNV-1a value of the bytes in
\* order: equal payloads have equal fingerprints, the payload "a" has
\* 3826002220, and exchanging two adjacent, different characters changes the
\* fingerprint
C39_OrderDependent ==
    \A m, n \in SchemaNames :
        (Fingerprinted(m) /\ Fingerprinted(n))
            => /\ schemas[m].content = schemas[n].content
                    => schemas[m].hashLabel = schemas[n].hashLabel
               /\ schemas[m].content = <<97>> => schemas[m].hashLabel = "3826002220"
               /\ AdjacentSwap(schemas[m].content, schemas[n].content)
                    => schemas[m].hashLabel # schemas[n].hashLabel

C39_Witness ==
    /\ Fingerprinted("a") /\ Fingerprinted("b")
    /\ schemas["a"].content = <<97, 98>>
    /\ schemas["b"].content = <<98, 97>>
    /\ schemas["a"].hashLabel = "1294271946"
    /\ schemas["b"].hashLabel = "1009493708"

====
